---------------------------- MODULE Spec2Model ----------------------------
(***************************************************************************)
(* Model of pyonfx/ass_core.py: the reading of the Events section of the   *)
(* input file by Ass.__init__, its extended pass that turns every parsed   *)
(* dialogue line into words, syllables and chars with their timing and     *)
(* their placement, the lead-in/lead-out pass, and the output methods      *)
(* write_line, save, open_aegisub and open_mpv.                            *)
(*                                                                         *)
(* Conventions.                                                            *)
(*  - A Python str is a sequence of one-character strings; offsets named   *)
(*    p, q, e are Python's 0-based offsets, so s[p] in Python is s[p+1].   *)
(*  - Python objects are records whose DOMAIN is the set of attributes     *)
(*    that have been assigned: an attribute that was never set is not in   *)
(*    the DOMAIN.  Set(obj, r) assigns the attributes of r on obj.         *)
(*  - Geometry attributes (width, height, left, center, right, top,        *)
(*    middle, bottom, x, y) are floats in the program and are stored here  *)
(*    in HALF pixels (twice the program's value), so that every "/ 2" of   *)
(*    the program is exact: Px(n) stores the number n, Half(v) is v / 2.   *)
(*  - leadin / leadout are stored in tenths of a millisecond, so that the  *)
(*    sentinel 1000.1 is the integer 10001.                                *)
(*  - unread holds the lines of the input file after the "[Events]" line   *)
(*    that are still to be read, and output the part of the private list   *)
(*    __output appended after that line; what the earlier sections append  *)
(*    is the same in every run and is left out.                            *)
(*  - raised is the exception the last call let out ("none" when it        *)
(*    returned), call the last call made on the object with its argument,  *)
(*    ret what that call returned (None when it returned nothing or        *)
(*    raised) and launched the command of the external process that call   *)
(*    started (empty when it started none).                                *)
(***************************************************************************)
EXTENDS Integers, Sequences, FiniteSets, TLC

VARIABLES meta, styles, lines, extended, vertical_kanji, pc, li, lines_by_styles,
          unread, keep_original, output, plines, saved, written, raised, call,
          ret, launched

\* the private attributes of the output side and the calls made on the object
out_vars == <<output, plines, saved, written, raised, call, ret, launched>>

vars == <<meta, styles, lines, extended, vertical_kanji, pc, li, lines_by_styles,
          unread, keep_original, out_vars>>

---------------------------------------------------------------------------
(* Generic helpers                                                         *)

Min(S) == CHOOSE m \in S : \A n \in S : m <= n

Max(a, b) == IF a >= b THEN a ELSE b

Set(obj, r) == r @@ obj

Px(n) == 2 * n

Half(v) == v \div 2

RECURSIVE Concat(_)
Concat(ss) == IF ss = <<>> THEN <<>> ELSE Head(ss) \o Concat(Tail(ss))

RECURSIVE Repeat(_, _)
Repeat(c, n) == IF n <= 0 THEN <<>> ELSE <<c>> \o Repeat(c, n - 1)

(* s[a:b] of Python, 0 <= a <= b <= len(s) *)
Slice(s, a, b) == SubSeq(s, a + 1, b)

Whitespace == {" ", "\t"}

IsSpace(c) == c \in Whitespace

Digits == <<"0", "1", "2", "3", "4", "5", "6", "7", "8", "9">>

IsDigit(c) == \E d \in 1..10 : Digits[d] = c

DigitVal(c) == (CHOOSE d \in 1..10 : Digits[d] = c) - 1

(* int(str) of a string of decimal digits *)
RECURSIVE ParseInt(_)
ParseInt(ds) ==
    IF ds = <<>> THEN 0
    ELSE 10 * ParseInt(SubSeq(ds, 1, Len(ds) - 1)) + DigitVal(ds[Len(ds)])

(* least offset q >= from with s[q] = c, or -1 *)
FindChar(s, c, from) ==
    LET hits == {q \in from..(Len(s) - 1) : s[q + 1] = c}
    IN  IF hits = {} THEN -1 ELSE Min(hits)

(* number of leading / trailing whitespace characters of s *)
LeadSpaces(s) ==
    LET non == {q \in 0..(Len(s) - 1) : ~IsSpace(s[q + 1])}
    IN  IF non = {} THEN Len(s) ELSE Min(non)

TrailSpaces(s) ==
    LET non == {q \in 1..Len(s) : ~IsSpace(s[q])}
    IN  IF non = {} THEN Len(s) ELSE Len(s) - (CHOOSE m \in non : \A n \in non : n <= m)

(* str.isspace(): at least one character and all of them whitespace *)
IsSpaceStr(s) == Len(s) > 0 /\ \A q \in 1..Len(s) : IsSpace(s[q])

NoMatch == [matched |-> FALSE]

---------------------------------------------------------------------------
(* Font metrics provider (pyonfx/font_utility.py, not part of the sources  *)
(* at hand): a pure measure of a text, additive over its characters.       *)

CharWidth(c) == IF IsSpace(c) THEN 1 ELSE IF c = "b" THEN 3 ELSE 2

RECURSIVE TextWidth(_)
TextWidth(s) == IF s = <<>> THEN 0 ELSE CharWidth(Head(s)) + TextWidth(Tail(s))

TextHeight(s) == 4

(* font.get_text_extents(text) -> (width, height), stored in half pixels *)
get_text_extents(text) == [width |-> Px(TextWidth(text)), height |-> Px(TextHeight(text))]

---------------------------------------------------------------------------
(* Regular expressions of the extended pass                                *)

\* re.sub of the pattern  \{.*?\}  by the empty string: every opening brace
\* that has a closing brace after it is removed with everything up to the
\* first such closing brace.
RECURSIVE StripFrom(_, _)
StripFrom(s, p) ==
    IF p >= Len(s) THEN <<>>
    ELSE IF s[p + 1] = "{" /\ FindChar(s, "}", p + 1) >= 0
         THEN StripFrom(s, FindChar(s, "}", p + 1) + 1)
         ELSE <<s[p + 1]>> \o StripFrom(s, p + 1)

StripTags(raw) == StripFrom(raw, 0)

\* FindWords of a pattern that leaves the whitespace between two words to
\* the word after it
RECURSIVE FindWordsSpacesBefore(_, _)
FindWordsSpacesBefore(s, p) ==
    LET rest  == Slice(s, p, Len(s))
        pre   == LeadSpaces(rest)
        body  == Slice(rest, pre, Len(rest))
        spc   == {q \in 0..(Len(body) - 1) : IsSpace(body[q + 1])}
        wlen  == IF spc = {} THEN Len(body) ELSE Min(spc)
        after == Slice(body, wlen, Len(body))
        post  == IF LeadSpaces(after) = Len(after) THEN Len(after) ELSE 0
    IN  IF wlen = 0 THEN <<>>
        ELSE <<[prespace  |-> Slice(rest, 0, pre),
                word_text |-> Slice(body, 0, wlen),
                postspace |-> Slice(after, 0, post)]>>
             \o FindWordsSpacesBefore(s, p + pre + wlen + post)

\* re.findall of the pattern  (\s* )([^\s]+)(\s* )  in text, from offset p on:
\* the list of (prespace, word_text, postspace); each \s* and [^\s]+ is greedy.
RECURSIVE FindWords(_, _)
FindWords(s, p) ==
    LET rest  == Slice(s, p, Len(s))
        pre   == LeadSpaces(rest)
        body  == Slice(rest, pre, Len(rest))
        spc   == {q \in 0..(Len(body) - 1) : IsSpace(body[q + 1])}
        wlen  == IF spc = {} THEN Len(body) ELSE Min(spc)
        after == Slice(body, wlen, Len(body))
        post  == LeadSpaces(after)
    IN  IF wlen = 0 THEN <<>>
        ELSE <<[prespace  |-> Slice(rest, 0, pre),
                word_text |-> Slice(body, 0, wlen),
                postspace |-> Slice(after, 0, post)]>>
             \o FindWords(s, p + pre + wlen + post)

\* tag_pattern, (\{.*?\})+ : the end of the run of adjacent brace groups of
\* which the groups up to offset e are matched already.
RECURSIVE TagRunEnd(_, _)
TagRunEnd(s, e) ==
    IF e < Len(s) /\ s[e + 1] = "{" /\ FindChar(s, "}", e + 1) >= 0
    THEN TagRunEnd(s, FindChar(s, "}", e + 1) + 1)
    ELSE e

(* tag_pattern.search(s, from): start() and end() of the first tag run *)
TagSearch(s, from) ==
    LET starts == {p \in from..(Len(s) - 1) :
                      s[p + 1] = "{" /\ FindChar(s, "}", p + 1) >= 0}
    IN  IF starts = {} THEN NoMatch
        ELSE LET p == Min(starts)
             IN  [matched |-> TRUE, start |-> p,
                  end |-> TagRunEnd(s, FindChar(s, "}", p + 1) + 1)]

\* str.replace of a closing brace followed by an opening brace by nothing
RECURSIVE RemoveJoins(_)
RemoveJoins(s) ==
    IF Len(s) < 2 THEN s
    ELSE IF s[1] = "}" /\ s[2] = "{" THEN RemoveJoins(SubSeq(s, 3, Len(s)))
         ELSE <<s[1]>> \o RemoveJoins(Tail(s))

\* re.match of the pattern  (.*?)(\s+)$  : the text ends with whitespace
EndsWithSpace(text) == Len(text) > 0 /\ IsSpace(text[Len(text)])

\* syl_tags_pattern, (.*?)\\[kK][of]?(\d+)(.* ), has a match at offset p of tags
\* when \k or \K, then an optional o or f, is followed by a digit there.
KTagAt(tags, p) ==
    /\ p + 2 < Len(tags)
    /\ tags[p + 1] = "\\"
    /\ tags[p + 2] \in {"k", "K"}
    /\ \/ IsDigit(tags[p + 3])
       \/ /\ p + 3 < Len(tags)
          /\ tags[p + 3] \in {"o", "f"}
          /\ IsDigit(tags[p + 4])

\* syl_tags_pattern.match(tags): the lazy first group makes it the first such
\* offset; kdur is the whole run of digits, posttags everything after it.
syl_tags_pattern(tags) ==
    LET hits == {p \in 0..(Len(tags) - 1) : KTagAt(tags, p)}
    IN  IF hits = {} THEN NoMatch
        ELSE LET p      == Min(hits)
                 dstart == IF IsDigit(tags[p + 3]) THEN p + 2 ELSE p + 3
                 nond   == {q \in dstart..(Len(tags) - 1) : ~IsDigit(tags[q + 1])}
                 dend   == IF nond = {} THEN Len(tags) ELSE Min(nond)
             IN  [matched  |-> TRUE,
                  pretags  |-> Slice(tags, 0, p),
                  kdur     |-> Slice(tags, dstart, dend),
                  posttags |-> Slice(tags, dend, Len(tags))]

\* re.search of the pattern  \\\-([^\\]+)  in tags: the name after the first \-
\* that is followed by a character other than a backslash.
InlineFxSearch(tags) ==
    LET hits == {p \in 0..(Len(tags) - 3) :
                    tags[p + 1] = "\\" /\ tags[p + 2] = "-" /\ tags[p + 3] # "\\"}
    IN  IF hits = {} THEN NoMatch
        ELSE LET p    == Min(hits)
                 bs   == {q \in (p + 2)..(Len(tags) - 1) : tags[q + 1] = "\\"}
                 nend == IF bs = {} THEN Len(tags) ELSE Min(bs)
             IN  [matched |-> TRUE, name |-> Slice(tags, p + 2, nend)]

---------------------------------------------------------------------------
(* The Events section of the input file and the records of the output      *)

\* str.split(sep): the fields of s between the occurrences of the character sep
RECURSIVE Split(_, _)
Split(s, sep) ==
    LET q == FindChar(s, sep, 0)
    IN  IF q = -1 THEN <<s>>
        ELSE <<Slice(s, 0, q)>> \o Split(Slice(s, q + 1, Len(s)), sep)

\* sep.join(fields)
RECURSIVE Join(_, _)
Join(fields, sep) ==
    IF fields = <<>> THEN <<>>
    ELSE IF Len(fields) = 1 THEN fields[1]
         ELSE fields[1] \o <<sep>> \o Join(Tail(fields), sep)

StartsWith(s, prefix) == Len(s) >= Len(prefix) /\ SubSeq(s, 1, Len(prefix)) = prefix

Dialogue == <<"D", "i", "a", "l", "o", "g", "u", "e">>

Comment == <<"C", "o", "m", "m", "e", "n", "t">>

\* a line of the file without the newline that ends it
Chomp(line) ==
    IF line # <<>> /\ line[Len(line)] = "\n" THEN SubSeq(line, 1, Len(line) - 1) ELSE line

\* re.match of the pattern  (Dialogue|Comment): (.+?)$  on a line of the
\* file: one of the two words at the start of the line, a colon and a space,
\* then at least one character up to the end of the line, "$" standing before
\* the newline that ends it
EventMatch(line) ==
    LET body == Chomp(line)
        kind == IF StartsWith(body, Dialogue \o <<":", " ">>) THEN Dialogue
                ELSE IF StartsWith(body, Comment \o <<":", " ">>) THEN Comment
                     ELSE <<>>
    IN  IF /\ kind # <<>>
           /\ Len(body) > Len(kind) + 2
           /\ FindChar(body, "\n", 0) = -1
        THEN [matched |-> TRUE, kind |-> kind,
              rest |-> Slice(body, Len(kind) + 2, Len(body))]
        ELSE NoMatch

\* re.sub of the pattern  ^(Dialogue|Comment):  by "Comment:"
CommentOut(line) ==
    IF StartsWith(line, Dialogue \o <<":">>)
    THEN Comment \o Slice(line, Len(Dialogue), Len(line))
    ELSE line

\* s.strip() as int() does it before reading the number
Strip(s) ==
    IF LeadSpaces(s) = Len(s) THEN <<>>
    ELSE Slice(s, LeadSpaces(s), Len(s) - TrailSpaces(s))

\* the digits of the number int(s) reads, after the sign
Unsigned(s) ==
    IF Strip(s) # <<>> /\ Strip(s)[1] \in {"+", "-"} THEN Tail(Strip(s)) ELSE Strip(s)

\* int(s) does not raise ValueError: an optional sign and decimal digits
\* between optional whitespace
PyIntOk(s) == Unsigned(s) # <<>> /\ \A q \in 1..Len(Unsigned(s)) : IsDigit(Unsigned(s)[q])

\* int(s)
PyInt(s) ==
    IF Strip(s)[1] = "-" THEN 0 - ParseInt(Unsigned(s)) ELSE ParseInt(Unsigned(s))

\* str(n) of an int n >= 0
RECURSIVE DecStr(_)
DecStr(n) ==
    IF n < 10 THEN <<Digits[n + 1]>> ELSE DecStr(n \div 10) \o <<Digits[(n % 10) + 1]>>

\* "%0<width>d" % n, and "%d" % n with width 0
FormatD(n, width) ==
    LET digits == DecStr(IF n < 0 THEN 0 - n ELSE n)
        sign   == IF n < 0 THEN <<"-">> ELSE <<>>
    IN  sign \o Repeat("0", width - Len(digits) - Len(sign)) \o digits

\* Convert.time of a str "h:mm:ss.cc" (pyonfx/convert.py, not part of the
\* sources at hand): the time in milliseconds
ConvertTimeStr(s) ==
    LET hms == Split(s, ":")
        sc  == Split(hms[3], ".")
    IN  ((ParseInt(hms[1]) * 60 + ParseInt(hms[2])) * 60 + ParseInt(sc[1])) * 1000
        + ParseInt(sc[2]) * 10

\* Convert.time of an int of milliseconds: the str "h:mm:ss.cc"
ConvertTimeInt(ms) ==
    FormatD(ms \div 3600000, 0) \o <<":">> \o FormatD((ms \div 60000) % 60, 2)
    \o <<":">> \o FormatD((ms \div 1000) % 60, 2)
    \o <<".">> \o FormatD((ms % 1000) \div 10, 2)

\* what the code between "tmp = Line()" and "self.lines.append(tmp)" raises
\* on the fields f of a record: int() of a field that is no number raises
\* ValueError, a field that is not there raises IndexError, in the order of
\* the assignments
EventRaises(f) ==
    IF ~PyIntOk(f[1]) THEN "ValueError"
    ELSE IF Len(f) < 6 THEN "IndexError"
    ELSE IF ~PyIntOk(f[6]) THEN "ValueError"
    ELSE IF Len(f) < 7 THEN "IndexError"
    ELSE IF ~PyIntOk(f[7]) THEN "ValueError"
    ELSE IF Len(f) < 8 THEN "IndexError"
    ELSE IF ~PyIntOk(f[8]) THEN "ValueError"
    ELSE IF Len(f) < 9 THEN "IndexError"
    ELSE "none"

\* the Line of a record of fields f, the li-th record of the section
EventLineOf(kind, f, i) ==
    [i          |-> i,
     comment    |-> kind = Comment,
     layer      |-> PyInt(f[1]),
     start_time |-> ConvertTimeStr(f[2]),
     end_time   |-> ConvertTimeStr(f[3]),
     style      |-> f[4],
     actor      |-> f[5],
     margin_l   |-> PyInt(f[6]),
     margin_r   |-> PyInt(f[7]),
     margin_v   |-> PyInt(f[8]),
     effect     |-> f[9],
     raw_text   |-> Join(SubSeq(f, 10, Len(f)), ",")]

\* the attributes of a Line that write_line reads
RecordFields ==
    {"comment", "layer", "start_time", "end_time", "style", "actor",
     "margin_l", "margin_r", "margin_v", "effect", "text"}

\* the str write_line appends for a Line:
\* "\n%s: %d,%s,%s,%s,%s,%04d,%04d,%04d,%s,%s"
OutputRecord(line) ==
    <<"\n">> \o (IF line.comment THEN Comment ELSE Dialogue) \o <<":", " ">>
    \o Join(<<FormatD(line.layer, 0),
              ConvertTimeInt(Max(0, line.start_time)),
              ConvertTimeInt(Max(0, line.end_time)),
              line.style, line.actor,
              FormatD(line.margin_l, 4), FormatD(line.margin_r, 4),
              FormatD(line.margin_v, 4),
              line.effect, line.text>>, ",")

\* isinstance(line, Line), on a value that carries the name of its class
IsInstanceLine(v) == v.cls = "Line"

\* what a call that ran "return v" gave back
Returned(v) == [val |-> v]

\* self.path_output, an absolute path
path_output == <<"/", "o">>

\* the prefix of meta.video that open_mpv takes for a dummy video
Dummy == <<"?", "d", "u", "m", "m", "y">>

\* the test "if not self.__saved" of a method that never finds it true
SavedOrNot(flag) == FALSE

\* "if not self.__saved" of open_aegisub and open_mpv
NotSaved(flag) == ~flag

\* ["aegisub", os.path.abspath(self.path_output)]
AegisubCmd == << <<"a", "e", "g", "i", "s", "u", "b">>, path_output >>

\* cmd of open_mpv
MpvCmd(video, video_path, video_start, full_screen) ==
    << <<"m", "p", "v">> >>
    \o << IF video_path = <<>> THEN video ELSE video_path >>
    \o (IF video_start # <<>>
        THEN << <<"-", "-", "s", "t", "a", "r", "t", "=">> \o video_start >>
        ELSE <<>>)
    \o (IF full_screen THEN << <<"-", "-", "f", "s">> >> ELSE <<>>)
    \o << <<"-", "-", "s", "u", "b", "-", "f", "i", "l", "e", "=">> \o path_output >>

\* the machines the program runs on: sys.platform, and whether the program
\* that subprocess.call is given is found
Machines == [platform : {"win32", "linux"}, found : BOOLEAN]

---------------------------------------------------------------------------
(* The line loop of the extended pass, one operator per block of the loop  *)
(* body.  Each takes the Line built so far and returns it with the         *)
(* attributes the block assigns.                                           *)

None == [none |-> TRUE]

\* ResolveStyle that falls back on the style of the first name of the table
ResolveStyleOrFirst(line, stys) ==
    Set(line, [styleref |-> IF line.style \in DOMAIN stys THEN stys[line.style]
                            ELSE stys[CHOOSE st \in DOMAIN stys : TRUE]])

\* line.styleref = self.styles[line.style], None on KeyError
ResolveStyle(line, stys) ==
    Set(line, [styleref |-> IF line.style \in DOMAIN stys THEN stys[line.style] ELSE None])

\* line.duration and line.text
DurationAndText(line) ==
    Set(line, [duration |-> line.end_time - line.start_time,
               text     |-> StripTags(line.raw_text)])

\* line.width, line.height = font.get_text_extents(line.text)
LineExtents(line) == Set(line, get_text_extents(line.text))

\* MarginOr that always takes the margin of the style
MarginOfStyle(own, default) == default

\* the margin of the line when it is not 0, the margin of its style otherwise
MarginOr(own, default) == IF own # 0 THEN own ELSE default

\* line.left by the column of the alignment
LineLeft(line, m) ==
    LET a            == line.styleref.alignment
        tmp_margin_l == MarginOr(line.margin_l, line.styleref.margin_l)
        tmp_margin_r == MarginOr(line.margin_r, line.styleref.margin_r)
    IN  IF (a - 1) % 3 = 0 THEN Px(tmp_margin_l)
        ELSE IF (a - 2) % 3 = 0
             THEN Half(Px(m.play_res_x)) - Half(line.width)
                  + Half(Px(tmp_margin_l)) - Half(Px(tmp_margin_r))
             ELSE Px(m.play_res_x) - Px(tmp_margin_r) - line.width

\* line.top by the row of the alignment
LineTop(line, m) ==
    LET a == line.styleref.alignment
        v == MarginOr(line.margin_v, line.styleref.margin_v)
    IN  IF a > 6 THEN Px(v)
        ELSE IF a > 3 THEN Half(Px(m.play_res_y)) - Half(line.height)
             ELSE Px(m.play_res_y) - Px(v) - line.height

\* the x of an element from its left, center and right, by the column
ColumnX(a, left, center, right) ==
    IF (a - 1) % 3 = 0 THEN left
    ELSE IF (a - 2) % 3 = 0 THEN center ELSE right

\* the y of the line from its top, middle and bottom, by the row
RowY(a, top, middle, bottom) ==
    IF a > 6 THEN top ELSE IF a > 3 THEN middle ELSE bottom

\* PlayResPositive that tests the width of the play resolution only
PlayResXPositive(m) == m.play_res_x > 0

\* "self.meta.play_res_x > 0 and self.meta.play_res_y > 0", the test before
\* the positions of the line, of its words, of its syllables and of its chars
PlayResPositive(m) == m.play_res_x > 0 /\ m.play_res_y > 0

\* horizontal and vertical position of the line, when the play resolution is positive
LinePosition(line, m) ==
    IF PlayResPositive(m)
    THEN LET a      == line.styleref.alignment
             left   == LineLeft(line, m)
             center == left + Half(line.width)
             right  == left + line.width
             top    == LineTop(line, m)
             middle == top + Half(line.height)
             bottom == top + line.height
         IN  Set(line, [left |-> left, center |-> center, right |-> right,
                        x |-> ColumnX(a, left, center, right),
                        top |-> top, middle |-> middle, bottom |-> bottom,
                        y |-> RowY(a, top, middle, bottom)])
    ELSE line

\* space_width = font.get_text_extents(" ")[0]; style_spacing = line.styleref.spacing
SpaceWidth == get_text_extents(<<" ">>).width

StyleSpacing(line) == Px(line.styleref.spacing)

\* WordPrespace that does not count the spaces before the word
WordPrespaceZero(f) == 0

\* word.prespace and word.postspace from a match of the findall
WordPrespace(f) == Len(f.prespace)

\* WordPostspace that does not count the spaces after the word
WordPostspaceZero(f) == 0

WordPostspace(f) == Len(f.postspace)

\* the Word built from the found[k] of the findall, with wi = k - 1
MakeWord(line, found, k) ==
    [i          |-> k - 1,
     start_time |-> line.start_time,
     end_time   |-> line.end_time,
     duration   |-> line.duration,
     styleref   |-> line.styleref,
     text       |-> found[k].word_text,
     prespace   |-> WordPrespace(found[k]),
     postspace  |-> WordPostspace(found[k])]
    @@ get_text_extents(found[k].word_text)

\* line.words
AddWords(line) ==
    LET found == FindWords(line.text, 0)
    IN  Set(line, [words |-> [k \in 1..Len(found) |-> MakeWord(line, found, k)]])

\* the cursor walk over words or syllables, from els[k] on, with the cursor at cur_x
RECURSIVE CursorWalk(_, _, _, _, _, _)
CursorWalk(els, k, cur_x, line, space_width, style_spacing) ==
    IF k > Len(els) THEN <<>>
    ELSE LET el     == els[k]
             left   == cur_x + el.prespace * (space_width + style_spacing)
             center == left + Half(el.width)
             right  == left + el.width
             placed == Set(el, [left |-> left, center |-> center, right |-> right,
                                x |-> ColumnX(line.styleref.alignment, left, center, right),
                                top |-> line.top, middle |-> line.middle,
                                bottom |-> line.bottom, y |-> line.y])
             next_x == left + el.width
                       + el.postspace * (space_width + style_spacing) + style_spacing
         IN  <<placed>> \o CursorWalk(els, k + 1, next_x, line, space_width, style_spacing)

RECURSIVE MaxWidth(_)
MaxWidth(els) == IF els = <<>> THEN 0 ELSE Max(MaxWidth(SubSeq(els, 1, Len(els) - 1)), els[Len(els)].width)

RECURSIVE SumHeight(_)
SumHeight(els) == IF els = <<>> THEN 0 ELSE SumHeight(SubSeq(els, 1, Len(els) - 1)) + els[Len(els)].height

\* the vertical stacking of words or chars, from els[k] on, with the cursor at cur_y
RECURSIVE StackWalk(_, _, _, _, _, _)
StackWalk(els, k, cur_y, line, m, max_width) ==
    IF k > Len(els) THEN <<>>
    ELSE LET el     == els[k]
             a      == line.styleref.alignment
             x_fix  == Half(max_width - el.width)
             left   == IF a = 4 THEN line.left + x_fix
                       ELSE IF a = 5 THEN Half(Px(m.play_res_x)) - Half(el.width)
                            ELSE line.right - el.width - x_fix
             center == left + Half(el.width)
             right  == left + el.width
             x      == IF a = 4 THEN left ELSE IF a = 5 THEN center ELSE right
             top    == cur_y
             middle == top + Half(el.height)
             bottom == top + el.height
             placed == Set(el, [left |-> left, center |-> center, right |-> right, x |-> x,
                                top |-> top, middle |-> middle, bottom |-> bottom,
                                y |-> middle])
         IN  <<placed>> \o StackWalk(els, k + 1, cur_y + el.height, line, m, max_width)

\* the stacked layout of words or chars
VerticalStack(els, line, m) ==
    StackWalk(els, 1, Half(Px(m.play_res_y)) - Half(SumHeight(els)), line, m, MaxWidth(els))

\* the test that sends the words of a line to the cursor walk
WordsHorizontal(line) ==
    line.styleref.alignment > 6 \/ line.styleref.alignment < 4

\* word positions
WordPositions(line, m) ==
    IF line.words # <<>> /\ PlayResPositive(m)
    THEN IF WordsHorizontal(line)
         THEN Set(line, [words |-> CursorWalk(line.words, 1, line.left, line,
                                              SpaceWidth, StyleSpacing(line))])
         ELSE Set(line, [words |-> VerticalStack(line.words, line, m)])
    ELSE line

---------------------------------------------------------------------------
(* Text chunks and syllables                                               *)

\* the chunks of the tag runs, from the run tag on, with the running word_i
RECURSIVE TagChunks(_, _, _)
TagChunks(raw, tag, word_i) ==
    LET next_tag == TagSearch(raw, tag.end)
        tmp == [tags   |-> RemoveJoins(Slice(raw, tag.start + 1, tag.end - 1)),
                text   |-> Slice(raw, tag.end,
                                 IF next_tag.matched THEN next_tag.start ELSE Len(raw)),
                word_i |-> word_i]
        next_word_i == IF EndsWithSpace(tmp.text) THEN word_i + 1 ELSE word_i
    IN  IF next_tag.matched THEN <<tmp>> \o TagChunks(raw, next_tag, next_word_i)
        ELSE <<tmp>>

\* text_chunks of line.raw_text
TextChunks(raw) ==
    LET tag == TagSearch(raw, 0)
    IN  IF ~tag.matched THEN <<[tags |-> <<>>, text |-> raw]>>
        ELSE (IF tag.start # 0
              THEN <<[tags |-> <<>>, text |-> Slice(raw, 0, tag.start)]>>
              ELSE <<>>)
             \o TagChunks(raw, tag, 0)

\* KDuration without the conversion of centiseconds to milliseconds
KDurationCs(kdur) == ParseInt(kdur)

\* the duration of a syllable from the digits of its karaoke tag
KDuration(kdur) == ParseInt(kdur) * 10

\* the start_time of a new syllable, from the running clock
SylStart(last_time) == last_time

\* the while loop of a chunk up to the first posttags without karaoke tag:
\* the provisional syllables, the posttags left, and si and last_time advanced
RECURSIVE PeelSyls(_, _, _, _, _, _)
PeelSyls(posttags, syls_in_text_chunk, si, last_time, tc, styleref) ==
    LET tags_syl == syl_tags_pattern(posttags)
    IN  IF ~tags_syl.matched
        THEN [syls_in_text_chunk |-> syls_in_text_chunk, posttags |-> posttags,
              si |-> si, last_time |-> last_time]
        ELSE LET syl == [start_time |-> SylStart(last_time),
                         end_time   |-> SylStart(last_time) + KDuration(tags_syl.kdur),
                         duration   |-> KDuration(tags_syl.kdur),
                         styleref   |-> styleref,
                         tags       |-> tags_syl.pretags,
                         i          |-> si,
                         word_i     |-> tc.word_i]
             IN  PeelSyls(tags_syl.posttags, Append(syls_in_text_chunk, syl),
                          si + 1, syl.end_time, tc, styleref)

\* CarryInlineFx that forgets the name at a syllable without inline effect
NoCarryInlineFx(inline_fx, tags) ==
    IF InlineFxSearch(tags).matched THEN InlineFxSearch(tags).name ELSE <<>>

\* the inline_fx carried after a syllable with these tags
CarryInlineFx(inline_fx, tags) ==
    IF InlineFxSearch(tags).matched THEN InlineFxSearch(tags).name ELSE inline_fx

\* the hidden syllables of a chunk: all the provisional ones but the last
RECURSIVE HiddenSyls(_, _, _)
HiddenSyls(prov, k, inline_fx) ==
    IF k >= Len(prov) THEN [syls |-> <<>>, inline_fx |-> inline_fx]
    ELSE LET fx   == CarryInlineFx(inline_fx, prov[k].tags)
             syl  == Set(prov[k], [inline_fx |-> fx, prespace |-> 0, text |-> <<>>,
                                   postspace |-> 0] @@ get_text_extents(<<>>))
             rest == HiddenSyls(prov, k + 1, fx)
         IN  [syls |-> <<syl>> \o rest.syls, inline_fx |-> rest.inline_fx]

\* SplitSylText that keeps every text verbatim
SplitSylTextVerbatim(text) == [prespace |-> 0, text |-> text, postspace |-> 0]

\* prespace, text and postspace of the last syllable of a chunk
SplitSylText(text) ==
    IF IsSpaceStr(text) THEN [prespace |-> 0, text |-> text, postspace |-> 0]
    ELSE [prespace  |-> LeadSpaces(text),
          text      |-> Slice(text, LeadSpaces(text), Len(text) - TrailSpaces(text)),
          postspace |-> TrailSpaces(text)]

\* the last syllable of a chunk, which takes the posttags left and the text
LastSyl(syl, posttags, tc, inline_fx) ==
    LET tags  == syl.tags \o posttags
        split == SplitSylText(tc.text)
    IN  Set(syl, [tags |-> tags, inline_fx |-> CarryInlineFx(inline_fx, tags)]
                 @@ split @@ get_text_extents(split.text))

\* ClearSyls without the clear: the loop stops and keeps what it has
KeepSyls(syls) == syls

\* what line.syls becomes at a chunk without karaoke tag
ClearSyls(syls) == <<>>

\* the for loop over the chunks, from chunks[k] on
RECURSIVE SylLoop(_, _, _, _, _, _, _)
SylLoop(chunks, k, syls, si, last_time, inline_fx, styleref) ==
    IF k > Len(chunks) THEN syls
    ELSE IF ~syl_tags_pattern(chunks[k].tags).matched THEN ClearSyls(syls)
    ELSE LET tc     == chunks[k]
             peeled == PeelSyls(tc.tags, <<>>, si, last_time, tc, styleref)
             prov   == peeled.syls_in_text_chunk
             hidden == HiddenSyls(prov, 1, inline_fx)
             last   == LastSyl(prov[Len(prov)], peeled.posttags, tc, hidden.inline_fx)
         IN  SylLoop(chunks, k + 1, syls \o hidden.syls \o <<last>>,
                     peeled.si, peeled.last_time, last.inline_fx, styleref)

\* line.syls
AddSyls(line) ==
    Set(line, [syls |-> SylLoop(TextChunks(line.raw_text), 1, <<>>, 0, 0, <<>>,
                                line.styleref)])

---------------------------------------------------------------------------
(* Syllable positions                                                      *)

\* the test that sends the syllables of a line to the cursor walk
SylsHorizontal(line, vk) ==
    line.styleref.alignment > 6 \/ line.styleref.alignment < 4 \/ ~vk

\* FixLinePositions that fixes the rows and the size of the line and leaves
\* its left, center and right where they were
FixLineRows(line, m) ==
    LET sum_height == SumHeight(line.syls)
        cur_y      == Half(Px(m.play_res_y)) - Half(sum_height)
    IN  Set(line, [top |-> cur_y, middle |-> Half(Px(m.play_res_y)),
                   bottom |-> cur_y + sum_height,
                   width |-> MaxWidth(line.syls), height |-> sum_height])

\* FixLinePositions that leaves the line as it is
KeepLinePositions(line, m) == line

\* "Fixing line positions": the bounds of the line from its stacked syllables
FixLinePositions(line, m) ==
    LET a          == line.styleref.alignment
        max_width  == MaxWidth(line.syls)
        sum_height == SumHeight(line.syls)
        cur_y      == Half(Px(m.play_res_y)) - Half(sum_height)
        vert == [top |-> cur_y, middle |-> Half(Px(m.play_res_y)),
                 bottom |-> cur_y + sum_height,
                 width |-> max_width, height |-> sum_height]
        horiz == IF a = 4
                 THEN [center |-> line.left + Half(max_width),
                       right  |-> line.left + max_width]
                 ELSE IF a = 5
                      THEN [left  |-> line.center - Half(max_width),
                            right |-> line.center - Half(max_width) + max_width]
                      ELSE [left   |-> line.right - max_width,
                            center |-> line.right - max_width + Half(max_width)]
    IN  Set(line, vert @@ horiz)

\* the vertical stacking of the syllables, from syls[k] on, on the fixed line
RECURSIVE SylStackWalk(_, _, _, _, _)
SylStackWalk(syls, k, cur_y, line, max_width) ==
    IF k > Len(syls) THEN <<>>
    ELSE LET syl    == syls[k]
             a      == line.styleref.alignment
             x_fix  == Half(max_width - syl.width)
             left   == IF a = 4 THEN line.left + x_fix
                       ELSE IF a = 5 THEN line.center - Half(syl.width)
                            ELSE line.right - syl.width - x_fix
             center == left + Half(syl.width)
             right  == left + syl.width
             x      == IF a = 4 THEN left ELSE IF a = 5 THEN center ELSE right
             top    == cur_y
             middle == top + Half(syl.height)
             bottom == top + syl.height
             placed == Set(syl, [left |-> left, center |-> center, right |-> right,
                                 x |-> x, top |-> top, middle |-> middle,
                                 bottom |-> bottom, y |-> middle])
         IN  <<placed>> \o SylStackWalk(syls, k + 1, cur_y + syl.height, line, max_width)

\* syllable positions
SylPositions(line, m, vk) ==
    IF line.syls # <<>> /\ PlayResPositive(m)
    THEN IF SylsHorizontal(line, vk)
         THEN Set(line, [syls |-> CursorWalk(line.syls, 1, line.left, line,
                                             SpaceWidth, StyleSpacing(line))])
         ELSE LET fixed == FixLinePositions(line, m)
              IN  Set(fixed, [syls |-> SylStackWalk(line.syls, 1, fixed.top, fixed,
                                                    MaxWidth(line.syls))])
    ELSE line

---------------------------------------------------------------------------
(* Chars                                                                   *)

\* the sequence the chars are taken from
WordsOrSyls(line) == IF line.syls # <<>> THEN line.syls ELSE line.words

\* ElText without the spaces before the text
ElTextNoPre(el) == el.text \o Repeat(" ", el.postspace)

\* ElText without the spaces after the text
ElTextNoPost(el) == Repeat(" ", el.prespace) \o el.text

\* el_text: the text of a word or syllable between its spaces
ElText(el) == Repeat(" ", el.prespace) \o el.text \o Repeat(" ", el.postspace)

\* the Char of el_text[ci] of el, the char_index-th char of the line
MakeChar(line, el, ci, char_index) ==
    [i          |-> char_index,
     start_time |-> el.start_time,
     end_time   |-> el.end_time,
     duration   |-> el.duration,
     styleref   |-> line.styleref,
     text       |-> <<ElText(el)[ci + 1]>>]
    @@ (IF line.syls # <<>>
        THEN [word_i |-> el.word_i, syl_i |-> el.i, syl_char_i |-> ci]
        ELSE [word_i |-> el.i])
    @@ get_text_extents(<<ElText(el)[ci + 1]>>)

\* the chars of els[k] and of the elements after it
RECURSIVE CharsFrom(_, _, _, _)
CharsFrom(line, els, k, char_index) ==
    IF k > Len(els) THEN <<>>
    ELSE LET n == Len(ElText(els[k]))
         IN  [c \in 1..n |-> MakeChar(line, els[k], c - 1, char_index + c - 1)]
             \o CharsFrom(line, els, k + 1, char_index + n)

\* line.chars
AddChars(line) == Set(line, [chars |-> CharsFrom(line, WordsOrSyls(line), 1, 0)])

\* the cursor walk over the chars, from chars[k] on
RECURSIVE CharWalk(_, _, _, _, _)
CharWalk(chars, k, cur_x, line, style_spacing) ==
    IF k > Len(chars) THEN <<>>
    ELSE LET char   == chars[k]
             left   == cur_x
             center == left + Half(char.width)
             right  == left + char.width
             placed == Set(char, [left |-> left, center |-> center, right |-> right,
                                  x |-> ColumnX(line.styleref.alignment, left, center, right),
                                  top |-> line.top, middle |-> line.middle,
                                  bottom |-> line.bottom, y |-> line.y])
         IN  <<placed>> \o CharWalk(chars, k + 1, cur_x + char.width + style_spacing,
                                    line, style_spacing)

\* CharsHorizontal that forgets the bottom row of alignments
CharsHorizontalTopRow(line) == line.styleref.alignment > 6

\* the test that sends the chars of a line to the cursor walk
CharsHorizontal(line) ==
    line.styleref.alignment > 6 \/ line.styleref.alignment < 4

\* char positions
CharPositions(line, m) ==
    IF line.chars # <<>> /\ PlayResPositive(m)
    THEN IF CharsHorizontal(line)
         THEN Set(line, [chars |-> CharWalk(line.chars, 1, line.left, line,
                                            StyleSpacing(line))])
         ELSE Set(line, [chars |-> VerticalStack(line.chars, line, m)])
    ELSE line

\* the body of the line loop after the grouping by style
Extend(line, m, vk) ==
    LET l1 == DurationAndText(line)
    IN  IF l1.styleref # None
        THEN CharPositions(AddChars(SylPositions(AddSyls(WordPositions(AddWords(
                 LinePosition(LineExtents(l1), m)), m)), m, vk)), m)
        ELSE l1

---------------------------------------------------------------------------
(* Lead-in and lead-out                                                    *)

Sentinel == 10001

Tenths(ms) == 10 * ms

\* InsertByStart of a sort that is not stable: an element goes before the
\* elements with the same key
RECURSIVE InsertBeforeTies(_, _, _)
InsertBeforeTies(sorted, j, ls) ==
    IF sorted = <<>> THEN <<j>>
    ELSE IF ls[sorted[Len(sorted)]].start_time < ls[j].start_time
         THEN Append(sorted, j)
         ELSE Append(InsertBeforeTies(SubSeq(sorted, 1, Len(sorted) - 1), j, ls),
                     sorted[Len(sorted)])

\* list.sort(key=start_time) of a list of positions in lines: the sort is
\* stable, so an element goes after the elements whose key is not greater
RECURSIVE InsertByStart(_, _, _)
InsertByStart(sorted, j, ls) ==
    IF sorted = <<>> THEN <<j>>
    ELSE IF ls[sorted[Len(sorted)]].start_time <= ls[j].start_time
         THEN Append(sorted, j)
         ELSE Append(InsertByStart(SubSeq(sorted, 1, Len(sorted) - 1), j, ls),
                     sorted[Len(sorted)])

RECURSIVE SortByStart(_, _)
SortByStart(group, ls) ==
    IF group = <<>> THEN <<>>
    ELSE InsertByStart(SortByStart(SubSeq(group, 1, Len(group) - 1), ls),
                       group[Len(group)], ls)

\* LeadIn measured from the start of the previous line instead of its end
LeadInFromStart(group, k, ls) ==
    IF k = 1 THEN Sentinel
    ELSE Tenths(ls[group[k]].start_time - ls[group[k - 1]].start_time)

\* leadin of the line at position k of its sorted group
LeadIn(group, k, ls) ==
    IF k = 1 THEN Sentinel
    ELSE Tenths(ls[group[k]].start_time - ls[group[k - 1]].end_time)

\* leadout of the line at position k of its sorted group
LeadOut(group, k, ls) ==
    IF k = Len(group) THEN Sentinel
    ELSE Tenths(ls[group[k + 1]].start_time - ls[group[k]].end_time)

\* WithLeads that leaves the lines themselves in the order of their start times
WithLeadsSorted(ls, groups) ==
    LET order == SortByStart([j \in 1..Len(ls) |-> j], ls)
    IN  [n \in 1..Len(ls) |->
            LET j     == order[n]
                group == groups[ls[j].style]
                k     == CHOOSE k \in 1..Len(group) : group[k] = j
            IN  Set(ls[j], [leadin |-> LeadIn(group, k, ls),
                            leadout |-> LeadOut(group, k, ls)])]

\* the lines after the lead pass over the sorted groups
WithLeads(ls, groups) ==
    [j \in 1..Len(ls) |->
        LET group == groups[ls[j].style]
            k     == CHOOSE k \in 1..Len(group) : group[k] = j
        IN  Set(ls[j], [leadin |-> LeadIn(group, k, ls), leadout |-> LeadOut(group, k, ls)])]

---------------------------------------------------------------------------
(* Documents                                                               *)

MaxPieces == 5

MaxMargin == 1

MaxLines == 3

MaxTime == 2

\* the pieces raw texts are made of: karaoke tag runs, a tag run without
\* karaoke tag, a letter and a space
Pieces ==
    { <<"{", "\\", "k", "1", "}">>,
      <<"{", "\\", "k", "f", "1", "2", "}">>,
      <<"{", "x", "}">>,
      <<"a">>,
      <<" ">> }

RECURSIVE PieceSeqs(_)
PieceSeqs(n) ==
    IF n = 0 THEN {<<>>}
    ELSE LET shorter == PieceSeqs(n - 1)
         IN  shorter \cup {Append(ps, pc1) : ps \in {q \in shorter : Len(q) = n - 1},
                                              pc1 \in Pieces}

RawTexts == {Concat(ps) : ps \in PieceSeqs(MaxPieces)}

\* raw texts of the layout documents: a line without text, words only,
\* words between spaces, syllables with spaces, and a hidden syllable
GeoTexts ==
    { <<>>,
      <<"a", " ", "b">>,
      <<" ", "a", " ", " ", "b", " ">>,
      <<"{", "\\", "k", "1", "}", "a", "b", "{", "\\", "k", "2", "}", " ", "b">>,
      <<"{", "\\", "k", "1", "\\", "k", "2", "}", "b", " ", "{", "\\", "k", "3", "}", "a">> }

Style(alignment, spacing) ==
    [alignment |-> alignment, margin_l |-> 2, margin_r |-> 3, margin_v |-> 5,
     spacing |-> spacing]

\* a Line as the parser of the Events section leaves it
ParsedLine(i, start_time, end_time, style, ml, mr, mv, raw_text) ==
    [i |-> i, comment |-> FALSE, layer |-> 0,
     start_time |-> start_time, end_time |-> end_time, style |-> style,
     actor |-> <<>>, margin_l |-> ml, margin_r |-> mr, margin_v |-> mv,
     effect |-> <<>>, raw_text |-> raw_text]

NoGroups == [st \in {} |-> <<>>]

\* the output side of an object under construction: self.__saved = False,
\* self.__plines = 0, self.__output = [] and no output file written
NothingOut ==
    /\ output = <<>>
    /\ plines = 0
    /\ saved = FALSE
    /\ written = <<>>
    /\ raised = "none"
    /\ call = [op |-> "__init__"]
    /\ ret = None
    /\ launched = <<>>

\* the state at "if not extended" of a file whose Events section was read
\* with keep_original = False
Parsed ==
    /\ extended \in BOOLEAN
    /\ pc = "parsed"
    /\ li = 0
    /\ lines_by_styles = NoGroups
    /\ unread = <<>>
    /\ keep_original = FALSE
    /\ NothingOut

\* documents of one line with every raw text and two start times, laid out
\* on one style
InitText ==
    /\ Parsed
    /\ meta = [play_res_x |-> 40, play_res_y |-> 30]
    /\ styles = [st \in {"Default"} |-> Style(2, 0)]
    /\ vertical_kanji = TRUE
    /\ \E raw \in RawTexts, start \in {0, 7} :
          lines = <<ParsedLine(0, start, 100, "Default", 0, 0, 0, raw)>>

\* documents of one line with every alignment, margin and layout option
InitGeo ==
    /\ Parsed
    /\ \E rx \in {0, 40}, ry \in {0, 30} : meta = [play_res_x |-> rx, play_res_y |-> ry]
    /\ \E a \in 1..9, sp \in {0, 1} : styles = [st \in {"Default"} |-> Style(a, sp)]
    /\ vertical_kanji \in BOOLEAN
    /\ \E raw \in GeoTexts, ml \in 0..MaxMargin, mr \in 0..MaxMargin, mv \in 0..MaxMargin :
          lines = <<ParsedLine(0, 0, 100, "Default", ml, mr, mv, raw)>>

\* the lines a document of the timing documents may hold at index i
TimedLines(i) ==
    {ParsedLine(i, s, s + d, st, 0, 0, 0, <<"a">>) :
        s \in 0..MaxTime, d \in 0..1, st \in {"Default", "Alt"}}

RECURSIVE TimedDocs(_)
TimedDocs(n) ==
    IF n = 0 THEN {<<>>}
    ELSE LET shorter == TimedDocs(n - 1)
         IN  shorter \cup {Append(doc, l) : doc \in {q \in shorter : Len(q) = n - 1},
                                            l \in TimedLines(n - 1)}

\* documents of up to MaxLines lines of two styles, one of them not in the
\* style table
InitLead ==
    /\ Parsed
    /\ meta = [play_res_x |-> 40, play_res_y |-> 30]
    /\ styles = [st \in {"Default"} |-> Style(2, 0)]
    /\ vertical_kanji = TRUE
    /\ lines \in TimedDocs(MaxLines)

\* the pieces of the raw texts with inline effects: a karaoke tag run, an
\* inline effect in a tag run of its own, one before a karaoke tag, and a
\* letter
FxPieces ==
    { <<"{", "\\", "k", "1", "}">>,
      <<"{", "\\", "-", "f", "}">>,
      <<"{", "\\", "-", "g", "\\", "k", "2", "}">>,
      <<"a">> }

RECURSIVE FxPieceSeqs(_)
FxPieceSeqs(n) ==
    IF n = 0 THEN {<<>>}
    ELSE LET shorter == FxPieceSeqs(n - 1)
         IN  shorter \cup {Append(ps, pc1) : ps \in {q \in shorter : Len(q) = n - 1},
                                              pc1 \in FxPieces}

FxTexts == {Concat(ps) : ps \in FxPieceSeqs(MaxPieces)}

\* documents of two lines: every raw text with inline effects, then a line
\* of one syllable without any
InitFx ==
    /\ Parsed
    /\ meta = [play_res_x |-> 40, play_res_y |-> 30]
    /\ styles = [st \in {"Default"} |-> Style(2, 0)]
    /\ vertical_kanji = TRUE
    /\ \E raw \in FxTexts :
          lines = <<ParsedLine(0, 0, 100, "Default", 0, 0, 0, raw),
                    ParsedLine(1, 100, 200, "Default", 0, 0, 0,
                               <<"{", "\\", "k", "1", "}", "a">>)>>

MaxEvents == 3

MaxWrites == 2

DefaultName == <<"D", "e", "f", "a", "u", "l", "t">>

\* the time string of cs centiseconds, cs < 100
TimeStr(cs) == <<"0", ":", "0", "0", ":", "0", "0", ".">> \o FormatD(cs, 2)

\* a line of the Events section with all its ten fields
EventText(kind, layer, start_cs, end_cs, margin_r, text) ==
    kind \o <<":", " ">>
    \o Join(<<layer, TimeStr(start_cs), TimeStr(end_cs), DefaultName, <<>>,
              <<"0">>, margin_r, <<"0">>, <<>>, text>>, ",")
    \o <<"\n">>

GoodDialogue == EventText(Dialogue, <<"0">>, 0, 1, <<"0">>, <<"a">>)

GoodComment == EventText(Comment, <<"1">>, 1, 3, <<"1">>, <<"a", ",", "b">>)

\* the lines an Events section is made of: two well-formed records, the
\* Format line, a record with a layer that is no number, one with a margin
\* that is no number, one of four fields and one of nine fields
EventTexts ==
    { GoodDialogue,
      GoodComment,
      <<"F", "o", "r", "m", "a", "t", ":", " ", "L", "a", "y", "e", "r", "\n">>,
      EventText(Dialogue, <<"x">>, 0, 1, <<"0">>, <<"a">>),
      EventText(Dialogue, <<"0">>, 0, 1, <<"y">>, <<"a">>),
      Dialogue \o <<":", " ">>
          \o Join(<<<<"0">>, TimeStr(0), TimeStr(1), DefaultName>>, ",") \o <<"\n">>,
      Dialogue \o <<":", " ">>
          \o Join(<<<<"0">>, TimeStr(0), TimeStr(1), DefaultName, <<>>,
                    <<"0">>, <<"0">>, <<"0">>, <<>> >>, ",") \o <<"\n">> }

RECURSIVE EventDocs(_)
EventDocs(n) ==
    IF n = 0 THEN {<<>>}
    ELSE LET shorter == EventDocs(n - 1)
         IN  shorter \cup {Append(doc, l) : doc \in {q \in shorter : Len(q) = n - 1},
                                            l \in EventTexts}

\* the state before the first line of the Events section is read
AtEvents ==
    /\ pc = "parsing"
    /\ li = 0
    /\ lines = <<>>
    /\ lines_by_styles = NoGroups
    /\ meta = [play_res_x |-> 40, play_res_y |-> 30]
    /\ styles = [st \in {DefaultName} |-> Style(2, 0)]
    /\ vertical_kanji = TRUE
    /\ extended \in BOOLEAN
    /\ keep_original \in BOOLEAN
    /\ NothingOut

\* files with every Events section of up to MaxEvents lines
InitParse ==
    /\ AtEvents
    /\ unread \in EventDocs(MaxEvents)

\* files with an Events section of two well-formed records
InitOut ==
    /\ AtEvents
    /\ unread = <<GoodDialogue, GoodComment>>

\* meta of a file without a "Video File" line, of one with a dummy video and
\* of one with a video
OpenMetas ==
    { [play_res_x |-> 40, play_res_y |-> 30],
      [play_res_x |-> 40, play_res_y |-> 30, video |-> Dummy \o <<":", "1">>],
      [play_res_x |-> 40, play_res_y |-> 30, video |-> <<"/", "v">>] }

\* the files of InitOut with and without a video
InitOpen ==
    /\ pc = "parsing"
    /\ li = 0
    /\ lines = <<>>
    /\ lines_by_styles = NoGroups
    /\ meta \in OpenMetas
    /\ styles = [st \in {DefaultName} |-> Style(2, 0)]
    /\ vertical_kanji = TRUE
    /\ extended \in BOOLEAN
    /\ keep_original \in BOOLEAN
    /\ NothingOut
    /\ unread = <<GoodDialogue, GoodComment>>

---------------------------------------------------------------------------
(* Actions                                                                 *)

\* lines_by_styles[style].append(line), the list created when missing
GroupAppend(groups, style, j) ==
    IF style \in DOMAIN groups THEN [groups EXCEPT ![style] = Append(@, j)]
    ELSE (style :> <<j>>) @@ groups

\* "if not extended: return None"
ReturnNotExtended ==
    /\ pc = "parsed"
    /\ ~extended
    /\ pc' = "done"
    /\ UNCHANGED <<meta, styles, lines, extended, vertical_kanji, li, lines_by_styles,
                   unread, keep_original, out_vars>>

\* one iteration of "for li, line in enumerate(self.lines)"
ProcessLine ==
    /\ pc = "parsed"
    /\ extended
    /\ li < Len(lines)
    /\ LET line == ResolveStyle(lines[li + 1], styles)
       IN  /\ lines_by_styles' = GroupAppend(lines_by_styles, line.style, li + 1)
           /\ lines' = [lines EXCEPT ![li + 1] = Extend(line, meta, vertical_kanji)]
    /\ li' = li + 1
    /\ UNCHANGED <<meta, styles, extended, vertical_kanji, pc,
                   unread, keep_original, out_vars>>

\* "Add durations between dialogs", after the last line
LeadTimes ==
    /\ pc = "parsed"
    /\ extended
    /\ li = Len(lines)
    /\ lines_by_styles' = [st \in DOMAIN lines_by_styles |->
                              SortByStart(lines_by_styles[st], lines)]
    /\ lines' = WithLeads(lines, lines_by_styles')
    /\ pc' = "done"
    /\ UNCHANGED <<meta, styles, extended, vertical_kanji, li,
                   unread, keep_original, out_vars>>

\* one iteration of "for line in open(self.path_input)" in the Events
\* section: the line is echoed as a comment when keep_original, and when it
\* matches a Line is made of it and appended, unless a field raises, which
\* ends the constructor
ReadEvent ==
    /\ pc = "parsing"
    /\ unread # <<>>
    /\ LET line == Head(unread)
           m    == EventMatch(line)
           f    == Split(m.rest, ",")
       IN  /\ output' = IF keep_original THEN Append(output, CommentOut(line)) ELSE output
           /\ IF ~m.matched
              THEN UNCHANGED <<lines, li, pc, raised>>
              ELSE /\ li' = li + 1
                   /\ IF EventRaises(f) # "none"
                      THEN pc' = "failed" /\ raised' = EventRaises(f) /\ UNCHANGED lines
                      ELSE /\ lines' = Append(lines, EventLineOf(m.kind, f, li))
                           /\ UNCHANGED <<pc, raised>>
    /\ unread' = Tail(unread)
    /\ UNCHANGED <<meta, styles, extended, vertical_kanji, lines_by_styles,
                   keep_original, plines, saved, written, call, ret, launched>>

\* the end of the file: the reading loop is left; li is bound anew by
\* "for li, line in enumerate(self.lines)" and is not read before
EndOfFile ==
    /\ pc = "parsing"
    /\ unread = <<>>
    /\ pc' = "parsed"
    /\ li' = 0
    /\ UNCHANGED <<meta, styles, lines, extended, vertical_kanji, lines_by_styles,
                   unread, keep_original, out_vars>>

\* the values write_line is called with: the lines of the document, their
\* words, and None
WriteArgs ==
    {[cls |-> "Line", val |-> lines[j]] : j \in 1..Len(lines)}
    \cup {[cls |-> "Word", val |-> lines[j].words[1]] :
             j \in {k \in 1..Len(lines) : "words" \in DOMAIN lines[k]}}
    \cup {[cls |-> "NoneType", val |-> None]}

\* write_line(line)
WriteLine ==
    /\ pc = "done"
    /\ plines < MaxWrites
    /\ \E v \in WriteArgs :
          /\ call' = [op |-> "write_line", arg |-> v]
          /\ IF IsInstanceLine(v)
             THEN IF RecordFields \subseteq DOMAIN v.val
                  THEN /\ output' = Append(output, OutputRecord(v.val))
                       /\ plines' = plines + 1
                       /\ raised' = "none"
                  ELSE /\ raised' = "AttributeError"
                       /\ UNCHANGED <<output, plines>>
             ELSE /\ raised' = "TypeError"
                  /\ UNCHANGED <<output, plines>>
    /\ ret' = None
    /\ launched' = <<>>
    /\ UNCHANGED <<meta, styles, lines, extended, vertical_kanji, pc, li, lines_by_styles,
                   unread, keep_original, saved, written>>

\* save(): f.writelines(self.__output), self.__saved = True
Save ==
    /\ pc = "done"
    /\ written' = output
    /\ saved' = TRUE
    /\ raised' = "none"
    /\ call' = [op |-> "save"]
    /\ ret' = None
    /\ launched' = <<>>
    /\ UNCHANGED <<meta, styles, lines, extended, vertical_kanji, pc, li, lines_by_styles,
                   unread, keep_original, output, plines>>

\* open_aegisub()
OpenAegisub ==
    /\ pc = "done"
    /\ call' = [op |-> "open_aegisub"]
    /\ raised' = "none"
    /\ IF NotSaved(saved)
       THEN ret' = Returned(-1) /\ launched' = <<>>
       ELSE \E env \in Machines :
               IF env.platform = "win32"
               THEN launched' = <<path_output>> /\ ret' = Returned(0)
               ELSE IF env.found
                    THEN launched' = AegisubCmd /\ ret' = Returned(0)
                    ELSE launched' = <<>> /\ ret' = Returned(-1)
    /\ UNCHANGED <<meta, styles, lines, extended, vertical_kanji, pc, li, lines_by_styles,
                   unread, keep_original, output, plines, saved, written>>

\* the values open_mpv is called with
MpvArgs == [video_path : {<<>>, <<"/", "w">>}, video_start : {<<>>, <<"5">>},
            full_screen : BOOLEAN]

\* open_mpv(video_path, video_start, full_screen)
OpenMpv ==
    /\ pc = "done"
    /\ \E a \in MpvArgs :
          /\ call' = [op |-> "open_mpv", arg |-> a]
          /\ IF NotSaved(saved)
             THEN ret' = Returned(-1) /\ launched' = <<>> /\ raised' = "none"
             ELSE IF "video" \notin DOMAIN meta
                  THEN ret' = None /\ launched' = <<>> /\ raised' = "AttributeError"
                  ELSE IF StartsWith(meta.video, Dummy) /\ a.video_path = <<>>
                       THEN ret' = Returned(-1) /\ launched' = <<>> /\ raised' = "none"
                       ELSE /\ raised' = "none"
                            /\ \E env \in Machines :
                                  IF env.found
                                  THEN /\ launched' = MpvCmd(meta.video, a.video_path,
                                                             a.video_start, a.full_screen)
                                       /\ ret' = Returned(0)
                                  ELSE launched' = <<>> /\ ret' = Returned(-1)
    /\ UNCHANGED <<meta, styles, lines, extended, vertical_kanji, pc, li, lines_by_styles,
                   unread, keep_original, output, plines, saved, written>>

Next == ReturnNotExtended \/ ProcessLine \/ LeadTimes

Spec == InitText /\ [][Next]_vars

SpecGeo == InitGeo /\ [][Next]_vars

SpecLead == InitLead /\ [][Next]_vars

SpecFx == InitFx /\ [][Next]_vars

\* the constructor from the first line of the Events section on
NextLoad == ReadEvent \/ EndOfFile \/ Next

SpecParse == InitParse /\ [][NextLoad]_vars

\* the constructor and the calls of write_line and save that follow it
NextOut == NextLoad \/ WriteLine \/ Save

SpecOut == InitOut /\ [][NextOut]_vars

\* the constructor and the calls of write_line, save, open_aegisub and
\* open_mpv that follow it
NextOpen == NextOut \/ OpenAegisub \/ OpenMpv

SpecOpen == InitOpen /\ [][NextOpen]_vars

---------------------------------------------------------------------------
(* Properties.  A line is processed when the line loop has passed it; the  *)
(* properties of the segmentation are about the processed lines that have  *)
(* a style.                                                                *)

Processed == {j \in 1..li : lines[j].styleref # None}

HasGeometry(j) == j \in Processed /\ meta.play_res_x > 0 /\ meta.play_res_y > 0

RECURSIVE SumSeq(_)
SumSeq(ns) == IF ns = <<>> THEN 0 ELSE Head(ns) + SumSeq(Tail(ns))

\* the offsets of the karaoke duration tags of a tag string, ascending
KOffsets(tags) == {p \in 0..(Len(tags) - 1) : KTagAt(tags, p)}

RECURSIVE Ascending(_)
Ascending(S) == IF S = {} THEN <<>> ELSE <<Min(S)>> \o Ascending(S \ {Min(S)})

\* the centisecond value written at the karaoke tag at offset p of tags
KValueAt(tags, p) ==
    LET d0 == IF IsDigit(tags[p + 3]) THEN p + 3 ELSE p + 4
        d1 == CHOOSE e \in d0..Len(tags) :
                 /\ \A q \in d0..e : IsDigit(tags[q])
                 /\ (e = Len(tags) \/ ~IsDigit(tags[e + 1]))
    IN  ParseInt(SubSeq(tags, d0, d1))

\* the centisecond values of all the karaoke tags of a line, in text order
KValues(raw) ==
    LET chunks == TextChunks(raw)
    IN  Concat([c \in 1..Len(chunks) |->
                   LET offs == Ascending(KOffsets(chunks[c].tags))
                   IN  [n \in 1..Len(offs) |-> KValueAt(chunks[c].tags, offs[n])]])

\* some chunk of the line has no karaoke duration tag
SomeChunkWithoutK(raw) ==
    \E c \in 1..Len(TextChunks(raw)) : KOffsets(TextChunks(raw)[c].tags) = {}

\* C1: the syllables of a processed line are all or nothing: none when some
\* chunk of the line has no karaoke duration tag, and otherwise one per
\* karaoke duration tag of every chunk, in text order (the k-th syllable has
\* index k - 1 and the duration of the k-th tag of the line).
C1_AllOrNothing ==
    \A j \in Processed :
        LET syls == lines[j].syls
            ks   == KValues(lines[j].raw_text)
        IN  IF SomeChunkWithoutK(lines[j].raw_text) THEN syls = <<>>
            ELSE /\ Len(syls) = Len(ks)
                 /\ \A n \in 1..Len(syls) :
                       syls[n].i = n - 1 /\ syls[n].duration = 10 * ks[n]

\* a line whose first chunk has a karaoke tag and a later chunk has none
C1_Witness ==
    \E j \in Processed :
        LET chunks == TextChunks(lines[j].raw_text)
        IN  /\ Len(chunks) >= 2
            /\ KOffsets(chunks[1].tags) # {}
            /\ KOffsets(chunks[Len(chunks)].tags) = {}
            /\ lines[j].syls = <<>>

\* C2: the syllables of a line follow a clock that starts at 0, whatever the
\* start time of the line: the first starts at 0, each starts where the one
\* before ends, each lasts 10 times the centiseconds of its tag and ends
\* at its start plus its duration; so the durations add up to 10 times the
\* sum of the tag values, which is the end of the last syllable.
C2_SyllableClock ==
    \A j \in Processed :
        LET syls == lines[j].syls
            ks   == KValues(lines[j].raw_text)
        IN  syls # <<>> =>
               /\ syls[1].start_time = 0
               /\ \A n \in 1..Len(syls) :
                     /\ syls[n].duration = 10 * ks[n]
                     /\ syls[n].end_time = syls[n].start_time + syls[n].duration
                     /\ n < Len(syls) => syls[n + 1].start_time = syls[n].end_time
               /\ SumSeq([n \in 1..Len(syls) |-> syls[n].duration]) = 10 * SumSeq(ks)
               /\ SumSeq([n \in 1..Len(syls) |-> syls[n].duration]) = syls[Len(syls)].end_time

\* a line that does not start at 0 with a hidden syllable and a syllable
\* after it
C2_Witness ==
    \E j \in Processed :
        /\ lines[j].start_time # 0
        /\ Len(lines[j].syls) >= 3
        /\ lines[j].syls[1].text = <<>>
        /\ lines[j].syls[2].duration # lines[j].syls[1].duration

\* the number of characters of a word or syllable with its spaces
Padded(el) == el.prespace + Len(el.text) + el.postspace

\* C3: the chars of a processed line come from its syllables when it has
\* any and from its words otherwise, never from both: there are as many
\* chars as the elements of that sequence have characters with their
\* spaces, and every char points into that sequence (a syllable index
\* exactly when the line has syllables).
C3_CharsFromOneSource ==
    \A j \in Processed :
        LET l   == lines[j]
            src == IF l.syls # <<>> THEN l.syls ELSE l.words
        IN  /\ Len(l.chars) = SumSeq([n \in 1..Len(src) |-> Padded(src[n])])
            /\ \A c \in 1..Len(l.chars) :
                  IF l.syls # <<>>
                  THEN /\ "syl_i" \in DOMAIN l.chars[c]
                       /\ l.chars[c].syl_i \in 0..(Len(l.syls) - 1)
                       /\ l.chars[c].syl_char_i < Padded(l.syls[l.chars[c].syl_i + 1])
                       /\ l.chars[c].word_i = l.syls[l.chars[c].syl_i + 1].word_i
                  ELSE /\ "syl_i" \notin DOMAIN l.chars[c]
                       /\ l.chars[c].word_i \in 0..(Len(l.words) - 1)

\* a line with more syllables than words, one of them with spaces after its
\* text, and at least three chars
C3_Witness ==
    \E j \in Processed :
        LET l == lines[j]
        IN  /\ l.syls # <<>> /\ l.words # <<>>
            /\ Len(l.syls) > Len(l.words)
            /\ \E n \in 1..Len(l.syls) : l.syls[n].postspace > 0
            /\ Len(l.chars) >= 3

\* a raw text without tags that is two tokens separated by one space
TwoTokens(raw) ==
    /\ \A q \in 1..Len(raw) : raw[q] \notin {"{", "}"}
    /\ \E q \in 2..(Len(raw) - 1) :
          /\ IsSpace(raw[q])
          /\ \A r \in (1..Len(raw)) \ {q} : ~IsSpace(raw[r])

\* C5 as stated: a line without tags whose text is two tokens separated by
\* one space has no syllables and two words, both with prespace 0 and
\* postspace 0.
C5_AsStated ==
    \A j \in Processed :
        TwoTokens(lines[j].raw_text) =>
            /\ lines[j].syls = <<>>
            /\ Len(lines[j].words) = 2
            /\ lines[j].words[1].prespace = 0 /\ lines[j].words[1].postspace = 0
            /\ lines[j].words[2].prespace = 0 /\ lines[j].words[2].postspace = 0

\* C5: a line without tags whose text is two tokens separated by one space
\* has no syllables and two words; the space is counted as the postspace of
\* the first word: prespace 0 and postspace 1, then prespace 0 and
\* postspace 0.
C5_TwoWords ==
    \A j \in Processed :
        TwoTokens(lines[j].raw_text) =>
            /\ lines[j].syls = <<>>
            /\ Len(lines[j].words) = 2
            /\ lines[j].words[1].prespace = 0 /\ lines[j].words[1].postspace = 1
            /\ lines[j].words[2].prespace = 0 /\ lines[j].words[2].postspace = 0
            /\ lines[j].words[1].text \o <<" ">> \o lines[j].words[2].text = lines[j].raw_text

\* a processed line of two tokens of different lengths
C5_Witness ==
    \E j \in Processed :
        /\ TwoTokens(lines[j].raw_text)
        /\ Len(lines[j].words) = 2
        /\ Len(lines[j].words[1].text) # Len(lines[j].words[2].text)

\* the offset in line.text of the first character of the text of syls[n]
SylOffset(l, n) ==
    SumSeq([k \in 1..(n - 1) |-> Padded(l.syls[k])]) + l.syls[n].prespace

\* the offset in line.text of the first character of the text of words[w]
WordOffset(l, w) ==
    SumSeq([k \in 1..(w - 1) |-> Padded(l.words[k])]) + l.words[w].prespace

\* C6 as stated: in a line with syllables, every syllable whose text is not
\* empty and not whitespace has a word_i that is an index of line.words, and
\* the text of the syllable starts inside the text of that word.
C6_WordOfSyllable ==
    \A j \in Processed :
        LET l == lines[j]
        IN  \A n \in 1..Len(l.syls) :
               (l.syls[n].text # <<>> /\ ~IsSpaceStr(l.syls[n].text)) =>
                  /\ l.syls[n].word_i \in 0..(Len(l.words) - 1)
                  /\ LET w == l.syls[n].word_i + 1
                     IN  /\ WordOffset(l, w) <= SylOffset(l, n)
                         /\ SylOffset(l, n) < WordOffset(l, w) + Len(l.words[w].text)

\* line a comes before line b in the order of their style group: by
\* ascending start time, and by position in the document for equal start times
Before(a, b) ==
    /\ lines[a].style = lines[b].style
    /\ \/ lines[a].start_time < lines[b].start_time
       \/ lines[a].start_time = lines[b].start_time /\ a < b

\* b comes right after a in their style group
Adjacent(a, b) ==
    /\ Before(a, b)
    /\ ~\E c \in 1..Len(lines) : Before(a, c) /\ Before(c, b)

EffMarginL(l) == IF l.margin_l # 0 THEN l.margin_l ELSE l.styleref.margin_l

EffMarginR(l) == IF l.margin_r # 0 THEN l.margin_r ELSE l.styleref.margin_r

EffMarginV(l) == IF l.margin_v # 0 THEN l.margin_v ELSE l.styleref.margin_v

\* C7: the placement of a line with a style, under a positive play
\* resolution, on the 9-cell grid (coordinates are stored doubled):
\* alignment 1/4/7: left = left margin, x = left;
\* alignment 2/5/8: left = play_res_x/2 - width/2 + margin_l/2 - margin_r/2,
\* x = center; alignment 3/6/9: left = play_res_x - margin_r - width,
\* x = right; alignment 7-9: top = vertical margin, y = top; alignment 4-6:
\* top = play_res_y/2 - height/2, y = middle; alignment 1-3:
\* top = play_res_y - vertical margin - height, y = bottom.
C7_LinePlacement ==
    \A j \in 1..li :
        HasGeometry(j) =>
            LET l == lines[j]
                a == l.styleref.alignment
            IN  /\ a \in {1, 4, 7} => l.left = 2 * EffMarginL(l) /\ l.x = l.left
                /\ a \in {2, 5, 8} =>
                      /\ 2 * l.left = 2 * meta.play_res_x - l.width
                                      + 2 * EffMarginL(l) - 2 * EffMarginR(l)
                      /\ l.x = l.center
                /\ a \in {3, 6, 9} =>
                      /\ l.left = 2 * meta.play_res_x - 2 * EffMarginR(l) - l.width
                      /\ l.x = l.right
                /\ a \in 7..9 => l.top = 2 * EffMarginV(l) /\ l.y = l.top
                /\ a \in 4..6 =>
                      /\ 2 * l.top = 2 * meta.play_res_y - l.height
                      /\ l.y = l.middle
                /\ a \in 1..3 =>
                      /\ l.top = 2 * meta.play_res_y - 2 * EffMarginV(l) - l.height
                      /\ l.y = l.bottom

\* a centred line with margins of its own whose bounds were taken from its
\* stacked syllables
C7_Witness ==
    \E j \in 1..li :
        /\ HasGeometry(j)
        /\ lines[j].styleref.alignment = 5 /\ vertical_kanji
        /\ lines[j].margin_l # 0 /\ lines[j].margin_r = 0
        /\ Len(lines[j].syls) >= 2
        /\ lines[j].width # get_text_extents(lines[j].text).width

\* el has the top, middle, bottom and y of the line l
SameRow(el, l) ==
    el.top = l.top /\ el.middle = l.middle /\ el.bottom = l.bottom /\ el.y = l.y

\* C8 as stated: without vertical_kanji every word, syllable and char of
\* every line, alignments 4-6 included, has the top, middle, bottom and y
\* of its line.
C8_NoStackingWithoutVerticalKanji ==
    ~vertical_kanji =>
        \A j \in 1..li :
            HasGeometry(j) =>
                /\ \A n \in 1..Len(lines[j].words) : SameRow(lines[j].words[n], lines[j])
                /\ \A n \in 1..Len(lines[j].syls) : SameRow(lines[j].syls[n], lines[j])
                /\ \A n \in 1..Len(lines[j].chars) : SameRow(lines[j].chars[n], lines[j])

\* C9 as stated: whatever the alignment, every char has the top, middle and
\* bottom of its line.
C9_AsStated ==
    \A j \in 1..li :
        HasGeometry(j) =>
            \A n \in 1..Len(lines[j].chars) :
                /\ lines[j].chars[n].top = lines[j].top
                /\ lines[j].chars[n].middle = lines[j].middle
                /\ lines[j].chars[n].bottom = lines[j].bottom

\* C9: the chars of a line of alignment 1-3 or 7-9 have the top, middle,
\* bottom and y of the line and follow each other from line.left, each
\* one style spacing after the one before; the chars of a line of alignment
\* 4-6 under vertical_kanji are stacked: the first top is play_res_y/2 minus
\* half the sum of the char heights and each top is the bottom of the char
\* before.
C9_CharRows ==
    \A j \in 1..li :
        HasGeometry(j) =>
            LET l  == lines[j]
                cs == l.chars
                a  == l.styleref.alignment
            IN  /\ a \notin 4..6 =>
                      \A n \in 1..Len(cs) :
                          /\ SameRow(cs[n], l)
                          /\ cs[n].right = cs[n].left + cs[n].width
                          /\ cs[n].left = IF n = 1 THEN l.left
                                          ELSE cs[n - 1].right + 2 * l.styleref.spacing
                /\ (a \in 4..6 /\ vertical_kanji) =>
                      \A n \in 1..Len(cs) :
                          /\ cs[n].bottom = cs[n].top + cs[n].height
                          /\ 2 * cs[1].top = 2 * meta.play_res_y
                                 - SumSeq([k \in 1..Len(cs) |-> cs[k].height])
                          /\ n > 1 => cs[n].top = cs[n - 1].bottom

\* a line of the bottom row with spacing and three chars or more
C9_Witness ==
    \E j \in 1..li :
        /\ HasGeometry(j)
        /\ lines[j].styleref.alignment \in 1..3
        /\ lines[j].styleref.spacing # 0
        /\ Len(lines[j].chars) >= 3

\* the elements that are stacked on a vertical line
Stacked(l) == IF l.syls # <<>> THEN l.syls ELSE l.words

\* a line laid out in vertical-kanji mode
VerticalLine(j) ==
    HasGeometry(j) /\ vertical_kanji /\ lines[j].styleref.alignment \in 4..6

\* the width of the widest of els, and the sum of their heights
WidestOf(els) == CHOOSE w \in {els[n].width : n \in 1..Len(els)} :
                     \A n \in 1..Len(els) : els[n].width <= w

\* C10 as stated: on a vertical line the width is the width of the widest
\* stacked element and the height the sum of their heights, the top is the
\* top of the first and the bottom the bottom of the last, the stacked
\* elements being the syllables when there are any and else the words.
C10_AsStated ==
    \A j \in 1..li :
        (VerticalLine(j) /\ Stacked(lines[j]) # <<>>) =>
            LET l == lines[j]
                els == Stacked(l)
            IN  /\ l.width = WidestOf(els)
                /\ l.height = SumSeq([n \in 1..Len(els) |-> els[n].height])
                /\ l.top = els[1].top
                /\ l.bottom = els[Len(els)].bottom

\* C10: on a vertical line with syllables the width is the width of the
\* widest syllable and the height the sum of the syllable heights, the top
\* is the top of the first syllable and the bottom the bottom of the last;
\* a vertical line without syllables keeps the width and height of its
\* whole text and top = play_res_y/2 - height/2, its words being stacked.
C10_LineBoundsFromSyllables ==
    \A j \in 1..li :
        VerticalLine(j) =>
            LET l == lines[j]
            IN  /\ l.syls # <<>> =>
                      /\ l.width = WidestOf(l.syls)
                      /\ l.height = SumSeq([n \in 1..Len(l.syls) |-> l.syls[n].height])
                      /\ l.top = l.syls[1].top
                      /\ l.bottom = l.syls[Len(l.syls)].bottom
                /\ l.syls = <<>> =>
                      /\ l.width = 2 * TextWidth(l.text)
                      /\ l.height = 2 * TextHeight(l.text)
                      /\ 2 * l.top = 2 * meta.play_res_y - l.height
                      /\ l.bottom = l.top + l.height

\* a vertical line with syllables of different widths
C10_Witness ==
    \E j \in 1..li :
        /\ VerticalLine(j)
        /\ Len(lines[j].syls) >= 2
        /\ lines[j].syls[1].width # lines[j].syls[2].width
        /\ lines[j].syls[1].width # 0

\* the attributes that place an object, and those that size it
PositionFields == {"left", "center", "right", "top", "middle", "bottom", "x", "y"}

SizeFields == {"width", "height"}

\* the words, syllables and chars of a line, in one sequence
Elements(l) == l.words \o l.syls \o l.chars

\* text, index and timing of a line with a style and of its elements, and its
\* three sequences, are set
TextAndTimingSet(l) ==
    /\ {"i", "text", "start_time", "end_time", "duration", "words", "syls", "chars"}
          \subseteq DOMAIN l
    /\ \A n \in 1..Len(Elements(l)) :
          {"i", "text", "start_time", "end_time", "duration"}
              \subseteq DOMAIN Elements(l)[n]

\* C11 as stated: under a play resolution that is not positive no geometry
\* attribute, width and height included, of a line with a style or of its
\* words, syllables and chars is set, while text, index, timing and the
\* three sequences are; under a positive one all of them are set.
C11_AsStated ==
    \A j \in Processed :
        LET l == lines[j]
        IN  /\ TextAndTimingSet(l)
            /\ IF meta.play_res_x > 0 /\ meta.play_res_y > 0
               THEN /\ PositionFields \cup SizeFields \subseteq DOMAIN l
                    /\ \A n \in 1..Len(Elements(l)) :
                          PositionFields \cup SizeFields \subseteq DOMAIN Elements(l)[n]
               ELSE /\ (PositionFields \cup SizeFields) \cap DOMAIN l = {}
                    /\ \A n \in 1..Len(Elements(l)) :
                          (PositionFields \cup SizeFields) \cap DOMAIN Elements(l)[n] = {}

\* C11: the play resolution gates the positions, not the sizes: every line
\* with a style and each of its words, syllables and chars has its width and
\* height, its text, index and timing whatever the play resolution; left,
\* center, right, top, middle, bottom, x and y are all set when both
\* dimensions are positive and none of them is set otherwise.
C11_PositionsGated ==
    \A j \in Processed :
        LET l == lines[j]
        IN  /\ TextAndTimingSet(l)
            /\ SizeFields \subseteq DOMAIN l
            /\ \A n \in 1..Len(Elements(l)) : SizeFields \subseteq DOMAIN Elements(l)[n]
            /\ IF meta.play_res_x > 0 /\ meta.play_res_y > 0
               THEN /\ PositionFields \subseteq DOMAIN l
                    /\ \A n \in 1..Len(Elements(l)) :
                          PositionFields \subseteq DOMAIN Elements(l)[n]
               ELSE /\ PositionFields \cap DOMAIN l = {}
                    /\ \A n \in 1..Len(Elements(l)) :
                          PositionFields \cap DOMAIN Elements(l)[n] = {}

\* a line with words, syllables and chars loaded under a play resolution of
\* positive width and height 0
C11_Witness ==
    \E j \in Processed :
        /\ meta.play_res_x > 0 /\ meta.play_res_y = 0
        /\ Len(lines[j].words) >= 2 /\ Len(lines[j].syls) >= 2
        /\ Len(lines[j].chars) >= 3
        /\ lines[j].syls[1].width > 0

\* the positions of the line j in the group of its style name
PlacesInGroup(j) ==
    IF lines[j].style \in DOMAIN lines_by_styles
    THEN {k \in 1..Len(lines_by_styles[lines[j].style]) :
             lines_by_styles[lines[j].style][k] = j}
    ELSE {}

\* C12: a line whose style name is not in the style table does not stop the
\* line loop: once the loop has passed it its styleref is None and it has no
\* words, syls or chars and no geometry attribute, the lines with a style
\* before and after it have their styleref, their sequences and their
\* geometry, and it stands once in the group of its raw style name, from
\* which the lead pass gives it its leadin and leadout.
C12_UnresolvedStyle ==
    /\ \A j \in 1..li :
          LET l == lines[j]
          IN  /\ Cardinality(PlacesInGroup(j)) = 1
              /\ IF l.style \in DOMAIN styles
                 THEN /\ l.styleref = styles[l.style]
                      /\ {"words", "syls", "chars"} \cup PositionFields \cup SizeFields
                            \subseteq DOMAIN l
                      /\ l.words # <<>> /\ l.chars # <<>>
                 ELSE /\ l.styleref = None
                      /\ ({"words", "syls", "chars"} \cup PositionFields \cup SizeFields)
                            \cap DOMAIN l = {}
                      /\ {"duration", "text"} \subseteq DOMAIN l
    /\ pc = "done" /\ extended =>
          /\ li = Len(lines)
          /\ \A j \in 1..Len(lines) : {"leadin", "leadout"} \subseteq DOMAIN lines[j]

\* a loaded document of three lines whose middle line has an unknown style
\* and is alone in its group, the two others sharing theirs
C12_Witness ==
    /\ pc = "done" /\ extended /\ Len(lines) = 3
    /\ lines[1].styleref # None /\ lines[3].styleref # None
    /\ lines[2].styleref = None
    /\ lines[2].leadin = Sentinel /\ lines[2].leadout = Sentinel
    /\ lines[3].leadin # Sentinel

\* C13 as stated: a call of write_line with a value that is not a Line
\* raises TypeError and leaves the output list and the counter of produced
\* lines as they were, so that the save that follows writes what it would
\* have written without the call; a call with a Line appends exactly one
\* record to the output list and adds one to the counter.
C13_WriteLine ==
    [][/\ (pc = "done" /\ call'.op = "write_line") =>
              IF call'.arg.cls = "Line"
              THEN /\ Len(output') = Len(output) + 1
                   /\ SubSeq(output', 1, Len(output)) = output
                   /\ plines' = plines + 1
              ELSE /\ raised' = "TypeError"
                   /\ output' = output
                   /\ plines' = plines
       /\ (pc = "done" /\ call'.op = "save") => written' = output]_vars

\* a record of the Events section that is well formed: the prefix of a
\* dialogue or comment record, ten fields or more, and a layer and three
\* margins that are numbers
WellFormedEvent(line) ==
    /\ EventMatch(line).matched
    /\ LET f == Split(EventMatch(line).rest, ",")
       IN  /\ Len(f) >= 10
           /\ PyIntOk(f[1]) /\ PyIntOk(f[6]) /\ PyIntOk(f[7]) /\ PyIntOk(f[8])

\* C14 as stated: reading a line of the Events section never ends the load:
\* a line that is no well-formed record is skipped, and a well-formed one
\* is appended to lines with the next index, so that the indices of lines
\* are 0..n-1 in the order of the file.
C14_MalformedSkipped ==
    [][(pc = "parsing" /\ unread # <<>>) =>
          /\ pc' = "parsing"
          /\ IF WellFormedEvent(Head(unread))
             THEN /\ Len(lines') = Len(lines) + 1
                  /\ SubSeq(lines', 1, Len(lines)) = lines
                  /\ lines'[Len(lines')].i = Len(lines)
             ELSE lines' = lines]_vars

\* the words of the line l span its bounds: the first word starts its
\* spaces after line.left and the last one ends its spaces before line.right
WordsSpanLine(l) ==
    /\ l.words[1].left - l.words[1].prespace * SpaceWidth = l.left
    /\ l.words[Len(l.words)].right + l.words[Len(l.words)].postspace * SpaceWidth
          = l.right

Without(obj, names) == [a \in DOMAIN obj \ names |-> obj[a]]

\* C16: the lead pass changes leadin and leadout only: the step that runs
\* it leaves lines with the same length and order, and every line with all
\* its other attributes (index, times, duration, text, geometry, words, syls
\* and chars) as they were, whatever the order of its style group after the
\* sort.
C16_OnlyLeads ==
    [][(pc = "parsed" /\ extended /\ pc' = "done") =>
          /\ Len(lines') = Len(lines)
          /\ \A j \in 1..Len(lines) :
                /\ DOMAIN lines'[j] = DOMAIN lines[j] \cup {"leadin", "leadout"}
                /\ Without(lines'[j], {"leadin", "leadout"}) = lines[j]
                /\ lines'[j].i = j - 1]_vars

\* a loaded document in which a line comes before an earlier line of its
\* style group in the time order of the group
C16_Witness ==
    /\ pc = "done" /\ extended
    /\ \E st \in DOMAIN lines_by_styles :
          \E k \in 1..(Len(lines_by_styles[st]) - 1) :
              /\ lines_by_styles[st][k] > lines_by_styles[st][k + 1]
              /\ lines[lines_by_styles[st][k]].styleref # None
              /\ lines[lines_by_styles[st][k]].leadout # Sentinel

\* the offset after the last digit of the karaoke tag at offset p of tags
KTagEnd(tags, p) ==
    LET d0 == IF IsDigit(tags[p + 3]) THEN p + 3 ELSE p + 4
    IN  CHOOSE e \in d0..Len(tags) :
            /\ \A q \in d0..e : IsDigit(tags[q])
            /\ (e = Len(tags) \/ ~IsDigit(tags[e + 1]))

\* the tag text between the karaoke tag before the n-th one of tags (or the
\* start of tags) and the n-th one, offs being the offsets of the karaoke tags
PreTags(tags, offs, n) ==
    Slice(tags, IF n = 1 THEN 0 ELSE KTagEnd(tags, offs[n - 1]), offs[n])

\* the number of syllables of the chunks before the c-th
RECURSIVE SylsBefore(_, _)
SylsBefore(chunks, c) ==
    IF c <= 1 THEN 0
    ELSE SylsBefore(chunks, c - 1) + Cardinality(KOffsets(chunks[c - 1].tags))

\* syl holds text between prespace and postspace whitespace characters:
\* the text itself when it is only whitespace, and else the text without
\* the whitespace at its two ends, which is counted
HoldsText(syl, text) ==
    IF IsSpaceStr(text)
    THEN syl.text = text /\ syl.prespace = 0 /\ syl.postspace = 0
    ELSE /\ syl.prespace + Len(syl.text) + syl.postspace = Len(text)
         /\ syl.text = SubSeq(text, syl.prespace + 1, syl.prespace + Len(syl.text))
         /\ \A q \in 1..syl.prespace : IsSpace(text[q])
         /\ \A q \in (Len(text) - syl.postspace + 1)..Len(text) : IsSpace(text[q])
         /\ syl.text # <<>> => ~IsSpace(syl.text[1]) /\ ~IsSpace(syl.text[Len(syl.text)])

\* C17: on a line with syllables, a chunk whose tags hold n karaoke tags
\* gives n consecutive syllables; the first n - 1 are hidden: text "",
\* prespace 0, postspace 0 and for tags the tag text before their own
\* karaoke tag; the last one holds the text of the chunk (split into
\* prespace, text and postspace, or verbatim when it is only whitespace)
\* and has for tags its own pre-tags followed by what is left of the tags
\* after its karaoke tag.
C17_HiddenSyllables ==
    \A j \in Processed :
        lines[j].syls # <<>> =>
            LET syls   == lines[j].syls
                chunks == TextChunks(lines[j].raw_text)
            IN  /\ Len(syls) = SylsBefore(chunks, Len(chunks) + 1)
                /\ \A c \in 1..Len(chunks) :
                      LET tags == chunks[c].tags
                          offs == Ascending(KOffsets(tags))
                          n    == Len(offs)
                          base == SylsBefore(chunks, c)
                      IN  /\ n >= 1
                          /\ \A m \in 1..(n - 1) :
                                /\ syls[base + m].text = <<>>
                                /\ syls[base + m].prespace = 0
                                /\ syls[base + m].postspace = 0
                                /\ syls[base + m].tags = PreTags(tags, offs, m)
                          /\ HoldsText(syls[base + n], chunks[c].text)
                          /\ syls[base + n].tags =
                                PreTags(tags, offs, n)
                                \o Slice(tags, KTagEnd(tags, offs[n]), Len(tags))

\* a line of one chunk with two karaoke tags and a tag after them, whose
\* text starts with a space
C17_Witness ==
    \E j \in Processed :
        /\ Len(lines[j].syls) = 2
        /\ lines[j].syls[1].text = <<>> /\ lines[j].syls[1].duration # 0
        /\ lines[j].syls[2].tags = <<"x">>
        /\ lines[j].syls[2].prespace = 1 /\ lines[j].syls[2].text = <<"a">>

\* the syllables up to the k-th of syls whose tags hold an inline effect
FxSylsUpTo(syls, k) == {n \in 1..k : InlineFxSearch(syls[n].tags).matched}

\* C18: on every line with syllables the inline_fx of the k-th syllable is
\* the name of the inline effect in the tags of the last syllable up to the
\* k-th whose tags hold one, and "" when no syllable up to the k-th holds
\* one: the name is carried over chunks and hidden syllables and is empty
\* again at the start of every line.
C18_InlineFxCarry ==
    \A j \in Processed :
        \A k \in 1..Len(lines[j].syls) :
            LET syls == lines[j].syls
                with == FxSylsUpTo(syls, k)
            IN  syls[k].inline_fx =
                    IF with = {} THEN <<>>
                    ELSE InlineFxSearch(
                             syls[CHOOSE n \in with : \A o \in with : o <= n].tags).name

\* a document whose first line carries an inline effect from its first
\* syllable over a hidden syllable of the next chunk, and whose second line
\* has none
C18_Witness ==
    /\ li = 2 /\ Processed = {1, 2}
    /\ Len(lines[1].syls) = 3
    /\ FxSylsUpTo(lines[1].syls, 3) = {1}
    /\ lines[1].syls[1].text # <<>> /\ lines[1].syls[2].text = <<>>
    /\ lines[1].syls[3].inline_fx = <<"f">>
    /\ Len(lines[2].syls) = 1 /\ lines[2].syls[1].inline_fx = <<>>


\* the line l is not laid out in vertical-kanji mode: its alignment is not
\* a middle-row one or vertical_kanji is off
NonVertical(l) == ~(l.styleref.alignment \in 4..6 /\ vertical_kanji)

\* what the cursor moves by for one space of the line l
SpaceAdvance(l) == SpaceWidth + StyleSpacing(l)

\* els, the words or the syllables of the line l, are where the cursor walk
\* from line.left puts them, on the row of the line
Walked(els, l) ==
    /\ els # <<>> => els[1].left = l.left + els[1].prespace * SpaceAdvance(l)
    /\ \A k \in 1..(Len(els) - 1) :
           els[k + 1].left = els[k].right + els[k].postspace * SpaceAdvance(l)
                             + StyleSpacing(l) + els[k + 1].prespace * SpaceAdvance(l)
    /\ \A k \in 1..Len(els) : SameRow(els[k], l)

\* C19 as stated: on every line with a style and a positive play resolution
\* that is not in vertical-kanji mode, whatever its column, the first word
\* and the first syllable start their spaces after line.left, each next
\* element starts after the right of the one before, its spaces after, the
\* style spacing and the spaces before the element, and every word and
\* syllable has the top, middle, bottom and y of the line.
C19_CursorWalk ==
    \A j \in 1..li :
        (HasGeometry(j) /\ NonVertical(lines[j]))
            => Walked(lines[j].words, lines[j]) /\ Walked(lines[j].syls, lines[j])


\* the line l is laid out by vertical stacking at its three levels
StackedLine(l) == l.styleref.alignment = 5 /\ vertical_kanji

\* every one of els has its center on the center of the line l
OnAnchor(els, l) == \A k \in 1..Len(els) : els[k].center = l.center

\* els are one under the other, each top on the bottom of the one before,
\* and the middle of the column they make is play_res_y / 2
InColumn(els) ==
    /\ \A k \in 1..(Len(els) - 1) : els[k + 1].top = els[k].bottom
    /\ els # <<>> => els[1].top + els[Len(els)].bottom = 2 * Half(Px(meta.play_res_y))

\* C20 as stated: on every line of alignment 5 laid out by vertical
\* stacking, whatever its left and right margins, every word, every
\* syllable and every char has its center on line.center, and the words,
\* the syllables and the chars each make a column of consecutive vertical
\* intervals whose middle is play_res_y / 2.
C20_StackedOnAnchor ==
    \A j \in 1..li :
        (HasGeometry(j) /\ StackedLine(lines[j]))
            => /\ OnAnchor(lines[j].words, lines[j]) /\ InColumn(lines[j].words)
               /\ OnAnchor(lines[j].syls, lines[j]) /\ InColumn(lines[j].syls)
               /\ OnAnchor(lines[j].chars, lines[j]) /\ InColumn(lines[j].chars)


\* the calls that open the output file in an external program
Openers == {"open_aegisub", "open_mpv"}

\* C21: in every sequence of write_line, save, open_aegisub and open_mpv
\* calls on one object, (1) an open_aegisub or open_mpv made while no save
\* has completed returns -1 and starts no process; no save has completed
\* exactly while the private flag is False, since (2) the flag starts False
\* and only a save that returns changes it; (3) a save writes the
\* accumulator as it is at the call and leaves it as it is; and (4) no other
\* call changes the file, so the records that write_line appended after the
\* last save are not in the file until the next save.
C21_SaveBeforeOpen ==
    [][pc = "done" =>
          /\ (call'.op \in Openers /\ ~saved)
                => (ret' = Returned(-1) /\ launched' = <<>> /\ raised' = "none")
          /\ saved' # saved => (call'.op = "save" /\ raised' = "none" /\ saved')
          /\ call'.op = "save" => (written' = output /\ output' = output)
          /\ call'.op # "save" => written' = written
          /\ (call'.op = "write_line" /\ output' # output)
                => (written' = written /\ written' # output')]_vars

\* open_mpv was called on an object that has produced a line and was not
\* saved, and returned -1 without starting a process
C21_Witness ==
    /\ pc = "done" /\ ~saved /\ plines > 0
    /\ call.op = "open_mpv" /\ ret = Returned(-1) /\ launched = <<>>


\* the number of characters the words ws stand for, their spaces included
RECURSIVE PaddedLen(_)
PaddedLen(ws) ==
    IF ws = <<>> THEN 0
    ELSE Head(ws).prespace + Len(Head(ws).text) + Head(ws).postspace + PaddedLen(Tail(ws))

\* C22: on every processed line the whitespace between two words belongs
\* to the word before it: every word but the first has prespace 0, and the
\* first has the whitespace the text starts with; when the text, that is
\* the raw text without its tags, has a character that is no whitespace,
\* the prespace, text length and postspace of all words add up to its
\* length; a text of whitespace only, or an empty one, has no word.
C22_SpacesAfterWords ==
    \A j \in Processed :
        LET ws == lines[j].words
            t  == lines[j].text
        IN  /\ \A k \in 2..Len(ws) : ws[k].prespace = 0
            /\ (\E q \in 1..Len(t) : ~IsSpace(t[q]))
                   => /\ ws # <<>>
                      /\ ws[1].prespace = LeadSpaces(t)
                      /\ PaddedLen(ws) = Len(t)
            /\ (\A q \in 1..Len(t) : IsSpace(t[q])) => ws = <<>>

\* a processed line whose text starts with a space and has two spaces
\* between its two words
C22_Witness ==
    \E j \in Processed :
        /\ Len(lines[j].words) = 2
        /\ lines[j].words[1].prespace = 1
        /\ lines[j].words[1].postspace = 2


\* C23: after an extended load every style group holds the lines of its
\* style by ascending start time, and two neighbours of the group with the
\* same start time are in the order of the document: the one with the
\* smaller index i comes first and is the line the lead-in of the other is
\* measured from.  The order of each group, and with it every leadin and
\* leadout, is then fixed by the document.
C23_StableTies ==
    (pc = "done" /\ extended) =>
        \A st \in DOMAIN lines_by_styles :
            LET g == lines_by_styles[st]
            IN  /\ {g[k] : k \in 1..Len(g)} = {j \in 1..Len(lines) : lines[j].style = st}
                /\ \A k, m \in 1..Len(g) : g[k] = g[m] => k = m
                /\ \A k \in 1..(Len(g) - 1) :
                      LET a == lines[g[k]]
                          b == lines[g[k + 1]]
                      IN  /\ a.start_time <= b.start_time
                          /\ a.start_time = b.start_time =>
                                /\ a.i < b.i
                                /\ b.leadin = Tenths(b.start_time - a.end_time)
                                /\ a.leadout = b.leadin

\* a loaded document with a group of three lines in which the sort moved a
\* line before two lines that start together, the first of which lasts
\* some time
C23_Witness ==
    /\ pc = "done" /\ extended
    /\ \E st \in DOMAIN lines_by_styles :
          LET g == lines_by_styles[st]
          IN  /\ Len(g) = 3
              /\ g[1] > g[2]
              /\ lines[g[2]].start_time = lines[g[3]].start_time
              /\ lines[g[2]].end_time > lines[g[2]].start_time
              /\ lines[g[3]].leadin < 0


\* the texts of the chars cs one after the other
RECURSIVE CharsText(_)
CharsText(cs) == IF cs = <<>> THEN <<>> ELSE Head(cs).text \o CharsText(Tail(cs))

\* the text t has a character that is no whitespace, and no whitespace
\* other than spaces
InkAndSpaces(t) ==
    /\ \E q \in 1..Len(t) : ~IsSpace(t[q])
    /\ \A q \in 1..Len(t) : IsSpace(t[q]) => t[q] = " "

\* C24: on every processed line whose text, the raw text without its tags,
\* has a character that is no whitespace and no whitespace but spaces, the
\* texts of line.chars in the order of the list make up the text of the
\* line, whether the chars come from the syllables (a hidden syllable gives
\* none) or from the words, and the i of each char is its position in
\* line.chars.
C24_NoTextLost ==
    \A j \in Processed :
        InkAndSpaces(lines[j].text) =>
            /\ CharsText(lines[j].chars) = lines[j].text
            /\ \A n \in 1..Len(lines[j].chars) : lines[j].chars[n].i = n - 1

\* a processed line whose chars come from two syllables, the first of them
\* hidden, and hold a space between two letters
C24_Witness ==
    \E j \in Processed :
        /\ InkAndSpaces(lines[j].text)
        /\ Len(lines[j].syls) = 2
        /\ lines[j].syls[1].text = <<>>
        /\ Len(lines[j].chars) = 3
        /\ lines[j].chars[2].text = <<" ">>


\* the box of el is consistent: its right, center, bottom and middle are
\* where its left, top, width and height put them (a half is exact here,
\* widths and heights being whole numbers of pixels)
BoxConsistent(el) ==
    /\ el.right = el.left + el.width
    /\ 2 * el.center = 2 * el.left + el.width
    /\ el.bottom = el.top + el.height
    /\ 2 * el.middle = 2 * el.top + el.height

\* x and y of the line l are the coordinates its alignment selects
OnItsAnchor(l) ==
    LET a == l.styleref.alignment
    IN  /\ l.x = (IF a \in {1, 4, 7} THEN l.left
                  ELSE IF a \in {2, 5, 8} THEN l.center ELSE l.right)
        /\ l.y = (IF a \in 7..9 THEN l.top
                  ELSE IF a \in 4..6 THEN l.middle ELSE l.bottom)

\* the bounds of the line l were overwritten by the vertical syllable pass
Overwritten(l) == l.styleref.alignment \in 4..6 /\ vertical_kanji /\ l.syls # <<>>

\* C25: every line with geometry, and each of its words, syllables and
\* chars, has right = left + width, center = left + width / 2,
\* bottom = top + height and middle = top + height / 2; so has a line whose
\* bounds the vertical syllable pass overwrote, and x and y of that line
\* are still the left, center or right and the middle its alignment
\* selects.
C25_BoxConsistency ==
    \A j \in 1..li :
        HasGeometry(j) =>
            /\ BoxConsistent(lines[j])
            /\ \A n \in 1..Len(lines[j].words) : BoxConsistent(lines[j].words[n])
            /\ \A n \in 1..Len(lines[j].syls) : BoxConsistent(lines[j].syls[n])
            /\ \A n \in 1..Len(lines[j].chars) : BoxConsistent(lines[j].chars[n])
            /\ Overwritten(lines[j]) => OnItsAnchor(lines[j])

\* a right-aligned middle-row line whose bounds were overwritten with those
\* of its stacked syllables, narrower than its text
C25_Witness ==
    \E j \in 1..li :
        /\ HasGeometry(j) /\ Overwritten(lines[j])
        /\ lines[j].styleref.alignment = 6
        /\ lines[j].width < get_text_extents(lines[j].text).width
        /\ lines[j].height > get_text_extents(lines[j].text).height
        /\ lines[j].chars # <<>>

=============================================================================
